---- MODULE Spec2Model ----
(***************************************************************************)
(* Poll / vote service of alx-polly: PollService (lib/services) over       *)
(* PollRepository / VoteRepository / BaseRepository and PollValidators.    *)
(*                                                                         *)
(* The store is the relational store as the repository code addresses it:  *)
(* tables polls, poll_options and votes, delete().eq(field, value) removes *)
(* every row whose field has that value, and deleting a poll cascades to   *)
(* its options and votes.  Of the documented schema the store has the key  *)
(* and the foreign key of votes, the trigger that maintains the vote       *)
(* counters, the CHECK polls_expires_at_future and the insert policy of    *)
(* votes, whose condition names no session.  The row-level policies whose  *)
(* condition is on auth.uid(), the session the store client runs with,     *)
(* and the other CHECK constraints are not part of the store modelled      *)
(* here.                                                                   *)
(*                                                                         *)
(* Reads of the store succeed; inserts may be refused by the store with an *)
(* error code.  this.table.supabase.from(t) in the repositories is read as *)
(* a query on table t.                                                     *)
(*                                                                         *)
(* Requests are sequential.  A service call is one step, which records the *)
(* call and its outcome in last; the step Return hands the outcome to the  *)
(* caller before the next call.  steps counts the store writes and clock   *)
(* ticks of a behaviour and is bounded by MaxSteps.  Further               *)
(* specifications apply the validators as pure functions and take two      *)
(* submitVote calls, and a createPoll call beside readers, through their   *)
(* store requests one at a time.                                           *)
(***************************************************************************)
EXTENDS Integers, Sequences, FiniteSets, TLC

(***************************************************************************)
(* Bounds of the model.                                                    *)
(***************************************************************************)
MaxPolls == 2
MaxSteps == 3

(***************************************************************************)
(* Program constants.                                                      *)
(***************************************************************************)
maxOptions == 10
minOptions == 2
maxTitleLength == 200
maxDescriptionLength == 1000
maxOptionLength == 200

(***************************************************************************)
(* Strings.  A string is a sequence of runs [c, n]: n >= 1 copies of the   *)
(* character c, adjacent runs having different characters, so that two     *)
(* strings are equal exactly when their run sequences are equal and length *)
(* limits of hundreds of characters stay checkable.                        *)
(***************************************************************************)
Run(c, n) == [c |-> c, n |-> n]

RECURSIVE Canon(_)
Canon(s) ==
  IF Len(s) <= 1 THEN s
  ELSE LET rest == Canon(Tail(s)) IN
       IF Head(s).c = Head(rest).c
       THEN <<Run(Head(s).c, Head(s).n + Head(rest).n)>> \o Tail(rest)
       ELSE <<Head(s)>> \o rest

RECURSIVE StrLen(_)
StrLen(s) == IF s = <<>> THEN 0 ELSE Head(s).n + StrLen(Tail(s))

IsSpace(c) == c = " "

RECURSIVE TrimStart(_)
TrimStart(s) ==
  IF s = <<>> THEN s
  ELSE IF IsSpace(Head(s).c) THEN TrimStart(Tail(s)) ELSE s

RECURSIVE TrimEnd(_)
TrimEnd(s) ==
  IF s = <<>> THEN s
  ELSE IF IsSpace(s[Len(s)].c) THEN TrimEnd(SubSeq(s, 1, Len(s) - 1)) ELSE s

\* String.prototype.trim
Trim(s) == TrimEnd(TrimStart(s))

LowerChar(c) ==
  CASE c = "A" -> "a"
    [] c = "B" -> "b"
    [] OTHER -> c

\* String.prototype.toLowerCase
ToLowerCase(s) == Canon([i \in 1..Len(s) |-> Run(LowerChar(s[i].c), s[i].n)])

\* JavaScript truthiness of a string: the empty string is falsy
Truthy(s) == s # <<>>

\* an optional value: undefined, or a present value
Undefined == [some |-> FALSE]
Some(v) == [some |-> TRUE, v |-> v]

\* sample strings
sEmpty == <<>>
sBlank == <<Run(" ", 1)>>
sA == <<Run("A", 1)>>
sLowA == <<Run("a", 1)>>
sPadA == <<Run(" ", 1), Run("A", 1), Run(" ", 1)>>
sB == <<Run("B", 1)>>
sC == <<Run("C", 1)>>
sMax == <<Run("x", 200)>>
sOver == <<Run("x", 201)>>
sDescMax == <<Run("x", 1000)>>
sDescOver == <<Run("x", 1001)>>

(***************************************************************************)
(* Validators (lib/validators/poll-validators.ts).  A field result is the  *)
(* sequence of error messages; isValid is its emptiness.                   *)
(***************************************************************************)
IsValid(errors) == errors = <<>>

\* mutant of validateTitle: the length of the untrimmed title is measured
validateTitleUntrimmed(title) ==
  IF ~title.some \/ ~Truthy(title.v) THEN <<"Title is required">>
  ELSE IF ~Truthy(Trim(title.v)) THEN <<"Title cannot be empty">>
  ELSE IF StrLen(title.v) > maxTitleLength
       THEN <<"Title cannot exceed 200 characters">>
       ELSE <<>>

validateTitle(title) ==
  IF ~title.some \/ ~Truthy(title.v) THEN <<"Title is required">>
  ELSE LET trimmed == Trim(title.v) IN
       IF ~Truthy(trimmed) THEN <<"Title cannot be empty">>
       ELSE IF StrLen(trimmed) > maxTitleLength
            THEN <<"Title cannot exceed 200 characters">>
            ELSE <<>>

validateDescription(description) ==
  IF description.some /\ Truthy(description.v)
     /\ StrLen(Trim(description.v)) > maxDescriptionLength
  THEN <<"Description cannot exceed 1000 characters">>
  ELSE <<>>

\* options.filter(option => option && option.trim())
RECURSIVE FilterNonEmpty(_)
FilterNonEmpty(options) ==
  IF options = <<>> THEN <<>>
  ELSE IF Truthy(Head(options)) /\ Truthy(Trim(Head(options)))
       THEN <<Head(options)>> \o FilterNonEmpty(Tail(options))
       ELSE FilterNonEmpty(Tail(options))

RECURSIVE OptionErrors(_, _)
OptionErrors(validOptions, index) ==
  IF index > Len(validOptions) THEN <<>>
  ELSE LET trimmed == Trim(validOptions[index]) IN
       (IF StrLen(trimmed) = 0 THEN <<"Option cannot be empty">>
        ELSE IF StrLen(trimmed) > maxOptionLength
             THEN <<"Option cannot exceed 200 characters">>
             ELSE <<>>)
       \o OptionErrors(validOptions, index + 1)

\* mutant of validateOptions: duplicates are compared with their case
validateOptionsCaseSensitive(options) ==
  IF ~options.some THEN <<"Options are required">>
  ELSE LET validOptions == FilterNonEmpty(options.v)
           uniqueOptions == {Trim(validOptions[i]) : i \in 1..Len(validOptions)}
       IN (IF Len(validOptions) < minOptions
           THEN <<"At least 2 options are required">> ELSE <<>>)
          \o (IF Len(validOptions) > maxOptions
              THEN <<"Maximum 10 options allowed">> ELSE <<>>)
          \o (IF Cardinality(uniqueOptions) # Len(validOptions)
              THEN <<"Duplicate options are not allowed">> ELSE <<>>)
          \o OptionErrors(validOptions, 1)

validateOptions(options) ==
  IF ~options.some THEN <<"Options are required">>
  ELSE LET validOptions == FilterNonEmpty(options.v)
           uniqueOptions == {ToLowerCase(Trim(validOptions[i])) : i \in 1..Len(validOptions)}
       IN (IF Len(validOptions) < minOptions
           THEN <<"At least 2 options are required">> ELSE <<>>)
          \o (IF Len(validOptions) > maxOptions
              THEN <<"Maximum 10 options allowed">> ELSE <<>>)
          \o (IF Cardinality(uniqueOptions) # Len(validOptions)
              THEN <<"Duplicate options are not allowed">> ELSE <<>>)
          \o OptionErrors(validOptions, 1)

\* Dates are numbers of time units (days); NoDate is an absent (undefined)
\* date and InvalidDate a Date object whose time value is NaN, as
\* new Date(text) builds from a text that is no date.
\* oneYearFromNow is now with the calendar year advanced by one: yearLen
\* time units later, yearLen being the length of the year that starts now.
NoDate == -1
InvalidDate == -2

\* relational comparison of two Dates: false when either is invalid
DateLeq(a, b) == a # InvalidDate /\ b # InvalidDate /\ a <= b
DateGt(a, b) == a # InvalidDate /\ b # InvalidDate /\ a > b

\* mutant of validateExpirationDate: the limit is 365 days whatever the year
validateExpirationDate365(expiresAt, nowT, yearLen) ==
  IF expiresAt = NoDate THEN <<>>
  ELSE (IF DateLeq(expiresAt, nowT)
        THEN <<"Expiration date must be in the future">> ELSE <<>>)
       \o (IF DateGt(expiresAt, nowT + 365)
           THEN <<"Expiration date cannot be more than 1 year in the future">>
           ELSE <<>>)

validateExpirationDate(expiresAt, nowT, yearLen) ==
  IF expiresAt = NoDate THEN <<>>
  ELSE (IF DateLeq(expiresAt, nowT)
        THEN <<"Expiration date must be in the future">> ELSE <<>>)
       \o (IF DateGt(expiresAt, nowT + yearLen)
           THEN <<"Expiration date cannot be more than 1 year in the future">>
           ELSE <<>>)

\* ValidationResult.errors as the set of fields that have errors
validateCreatePoll(data, nowT, yearLen) ==
  {f \in {"title", "description", "options", "expiresAt"} :
     CASE f = "title" -> ~IsValid(validateTitle(data.title))
       [] f = "description" -> ~IsValid(validateDescription(data.description))
       [] f = "options" -> ~IsValid(validateOptions(data.options))
       [] f = "expiresAt" ->
            ~IsValid(validateExpirationDate(data.expiresAt, nowT, yearLen))}

\* Partial<EditPollFormData>: a field that is absent from the form is not
\* in data.fields; expiresAt present may still hold NoDate (cleared).
validateEditPoll(data, nowT, yearLen) ==
  {f \in {"title", "description", "expiresAt"} \cap data.fields :
     CASE f = "title" -> ~IsValid(validateTitle(data.title))
       [] f = "description" -> ~IsValid(validateDescription(data.description))
       [] f = "expiresAt" ->
            ~IsValid(validateExpirationDate(data.expiresAt, nowT, yearLen))}

(***************************************************************************)
(* Errors (lib/errors/custom-errors.ts).  An error is its class, its       *)
(* message, and for a DatabaseError the class of its originalError.        *)
(***************************************************************************)
\* the message an error class gives its instances (ids and dates that the
\* constructors splice into the text are left out)
ClassMessage(class) ==
  CASE class = "ValidationError" -> "Validation failed"
    [] class = "UnauthorizedError" -> "Unauthorized to perform action"
    [] class = "NotFoundError" -> "Resource not found"
    [] class = "PollNotFoundError" -> "Poll not found"
    [] class = "BusinessLogicError" -> "Invalid option IDs"
    [] class = "PollInactiveError" -> "Poll is not active"
    [] class = "PollExpiredError" -> "Poll expired"
    [] class = "DatabaseError" -> "operation failed on table"
    [] OTHER -> "none"

\* the message of the error object the store reports when it refuses an
\* operation with a code convertSupabaseError does not know
StoreMessage == "connection to server lost"

NoError == [class |-> "none", original |-> "none", message |-> "none"]
Err(class) == [class |-> class, original |-> "none", message |-> ClassMessage(class)]
DatabaseErrorOf(originalClass) ==
  [class |-> "DatabaseError", original |-> originalClass,
   message |-> ClassMessage("DatabaseError")]

\* instanceof BusinessLogicError: the class and its subclasses
IsBusinessLogicError(e) ==
  e.class \in {"BusinessLogicError", "PollExpiredError", "PollInactiveError",
               "DuplicateVoteError", "MultipleVotesNotAllowedError"}

IsDatabaseError(e) ==
  e.class \in {"DatabaseError", "DatabaseConnectionError", "DatabaseQueryError"}

\* error codes a refused store operation reports
StoreErrorCodes == {"PGRST116", "PGRST301", "23505", "23503", "23502", "XX000"}

convertSupabaseError(code) ==
  CASE code = "PGRST116" -> Err("NotFoundError")
    [] code = "PGRST301" -> Err("UnauthorizedError")
    [] code = "23505" -> [Err("ValidationError") EXCEPT !.message = "Duplicate entry detected"]
    [] code = "23503" ->
         [Err("ValidationError") EXCEPT !.message = "Referenced resource does not exist"]
    [] code = "23502" -> [Err("ValidationError") EXCEPT !.message = "Required field is missing"]
    [] OTHER -> [DatabaseErrorOf("StoreError") EXCEPT !.message = StoreMessage]

\* BaseRepository.executeQuery: the error handleError throws is caught by
\* executeQuery's own catch, which rethrows a DatabaseError unchanged and
\* wraps anything else into a DatabaseError whose originalError it is.
executeQueryError(code) ==
  LET converted == convertSupabaseError(code) IN
  IF IsDatabaseError(converted) THEN converted
  ELSE DatabaseErrorOf(converted.class)

(***************************************************************************)
(* State.                                                                  *)
(***************************************************************************)
VARIABLES
  polls,       \* rows of table polls
  options,     \* rows of table poll_options
  votes,       \* rows of table votes
  now,         \* the clock
  nextPollId,  \* the next id the store generates for a poll
  steps,       \* the number of store writes and clock ticks so far
  last,        \* the last service call: its arguments and its outcome
  inflight,    \* the submitVote calls in progress side by side, each with
               \* its position (none where calls are served one at a time)
  counters     \* the columns poll_options.votes_count and
               \* polls.total_votes that the store's trigger maintains

vars == <<polls, options, votes, now, nextPollId, steps, last, inflight,
          counters>>

Users == {"u1", "u2"}

\* ids: a poll's options get the ids poll * IdStride + position
IdStride == 10
OptionId(pollId, position) == pollId * IdStride + position
\* an id of UUID shape that no row has, and an id that is not of UUID shape
UnknownId == 99
MalformedId == 0
IsUuid(id) == id # MalformedId

PollIds == {p.id : p \in polls}
PollRow(id) == CHOOSE p \in polls : p.id = id

\* the nested poll_options of a poll, in order of insertion
PollOptionRows(pollId) ==
  LET rows == {o \in options : o.poll_id = pollId} IN
  [i \in 1..Cardinality(rows) |->
     CHOOSE o \in rows :
       Cardinality({q \in rows : q.order_index < o.order_index}) = i - 1]

\* BaseRepository.findById on polls: .single() of a missing row reports
\* PGRST116, which executeQuery turns into a DatabaseError whose original
\* error is NotFoundError('Resource'); its message does not contain
\* 'PGRST116', so the catch in findById rethrows instead of returning null.
findById(id) ==
  IF id \in PollIds THEN [error |-> NoError, row |-> PollRow(id)]
  ELSE [error |-> executeQueryError("PGRST116"), row |-> <<>>]

\* PollRepository.findWithOptions: as findById, with the options nested;
\* its catch tests the message of the DatabaseError, which is
\* 'findWithOptions failed on polls', and rethrows as well.
findWithOptions(id) ==
  IF id \in PollIds
  THEN [error |-> NoError, row |-> PollRow(id), poll_options |-> PollOptionRows(id)]
  ELSE [error |-> executeQueryError("PGRST116"), row |-> <<>>, poll_options |-> <<>>]

\* PollService.getPoll: PollNotFoundError when findWithOptions returns null
getPoll(id) == findWithOptions(id)

\* VoteRepository.getUserVotes: findBy('poll_id') filtered by user_id
getUserVotes(pollId, userId) ==
  {v \in votes : v.poll_id = pollId /\ v.user_id = userId}

hasUserVoted(pollId, userId) == getUserVotes(pollId, userId) # {}

\* PollService.getUserVote
getUserVote(pollId, userId) ==
  LET vs == getUserVotes(pollId, userId) IN
  [hasVoted |-> vs # {}, optionIds |-> {v.option_id : v \in vs},
   count |-> Cardinality(vs)]

\* VoteRepository.getUniqueVoterCount
getUniqueVoterCount(pollId) ==
  Cardinality({v.user_id : v \in {w \in votes : w.poll_id = pollId}})

\* the default pagination of PollService.getActivePolls and getUserPolls
defaultLimit == 20

\* order('created_at', descending) cut by range(offset, offset + limit - 1)
\* on page 1: the limit newest rows (all rows when there are no more)
NewestPage(rows, limit) ==
  IF Cardinality(rows) <= limit THEN rows
  ELSE CHOOSE page \in SUBSET rows :
         /\ Cardinality(page) = limit
         /\ \A p \in page : \A q \in rows \ page : p.created_at >= q.created_at

\* PollRepository.findActiveWithOptions without a search filter, as
\* PollService.getActivePolls (service layer) calls it: the rows returned
findActiveWithOptions(nowT, limit) ==
  NewestPage({p \in polls : /\ p.is_active
                            /\ (p.expires_at = NoDate \/ p.expires_at > nowT)},
             limit)

\* PollService.getActivePolls of the service layer
getActivePolls(nowT) == findActiveWithOptions(nowT, defaultLimit)

\* PollService.getActivePolls of the direct-query service:
\* select ... .eq('is_active', true)
getActivePollsDirect == {p \in polls : p.is_active}

RECURSIVE SumOver(_, _)
SumOver(f, S) ==
  IF S = {} THEN 0
  ELSE LET x == CHOOSE y \in S : TRUE IN f[x] + SumOver(f, S \ {x})

\* PollRepository.getStatistics.  voteStats are the vote rows of the poll
\* joined (inner) with their option; uniqueVotersData are the user_id
\* columns of the vote rows of the poll, one per row.  A percentage is the
\* quotient votes / totalVotes * 100, kept exact as pctNum / pctDen.
getStatistics(pollId) ==
  LET poll_options == PollOptionRows(pollId)
      voteStats == {v \in votes : v.poll_id = pollId
                                  /\ \E o \in options : o.id = v.option_id}
      uniqueVotersData == {v \in votes : v.poll_id = pollId}
      totalVotes == Cardinality(voteStats)
      uniqueVoters == Cardinality(uniqueVotersData)
      optionVoteCounts(id) == Cardinality({v \in voteStats : v.option_id = id})
  IN [totalVotes |-> totalVotes,
      uniqueVoters |-> uniqueVoters,
      optionStats |->
        [i \in 1..Len(poll_options) |->
           [optionId |-> poll_options[i].id,
            text |-> poll_options[i].text,
            votes |-> optionVoteCounts(poll_options[i].id),
            pctNum |-> IF totalVotes > 0
                       THEN optionVoteCounts(poll_options[i].id) * 100 ELSE 0,
            pctDen |-> IF totalVotes > 0 THEN totalVotes ELSE 1]]]

(***************************************************************************)
(* Service calls.  last records the call and its outcome:                  *)
(*   op, poll, user, input  the operation and its arguments                *)
(*   error                  the error thrown (NoError on success)          *)
(*   ret                    the value returned (op-specific)               *)
(*   prior                  the option ids the caller held on the poll     *)
(*                          before a submitVote (history)                  *)
(*   action                 what the server action around the call does:   *)
(*                          its response and the paths it revalidates      *)
(***************************************************************************)
\* getErrorMessage: every error thrown here is an Error, custom or not
getErrorMessage(e) == e.message

\* getErrorCode: the code constant of the error's class
getErrorCode(e) ==
  CASE e.class = "ValidationError" -> "VALIDATION_ERROR"
    [] e.class = "UnauthorizedError" -> "UNAUTHORIZED"
    [] e.class \in {"NotFoundError", "PollNotFoundError"} -> "NOT_FOUND"
    [] IsBusinessLogicError(e) -> "BUSINESS_LOGIC_ERROR"
    [] IsDatabaseError(e) -> "DATABASE_ERROR"
    [] OTHER -> "UNKNOWN_ERROR"

\* mutant of handleServerActionError: the error is reported as a success
handleServerActionErrorSwallowed(e) ==
  [success |-> TRUE, error |-> "none", code |-> "none", data |-> 0]

\* handleServerActionError
handleServerActionError(e) ==
  [success |-> FALSE, error |-> getErrorMessage(e),
   code |-> IF getErrorCode(e) # "UNKNOWN_ERROR" THEN getErrorCode(e) ELSE "none",
   data |-> 0]

\* createErrorResponse (handleApiError): the code and message of the body
createErrorResponse(e) ==
  [success |-> FALSE, code |-> getErrorCode(e), message |-> getErrorMessage(e)]

\* the server actions of lib/actions/poll-actions.ts
ActionOps == {"createPoll", "updatePoll", "deletePoll", "togglePollStatus", "submitVote"}

\* the paths an action revalidates after its service call has returned
\* ('/dashboard', '/polls', '/polls/<id>', '/polls/<id>/edit')
RevalidatedPaths(op, pollId) ==
  CASE op = "createPoll" -> {<<"dashboard">>, <<"polls">>}
    [] op = "updatePoll" -> {<<"dashboard">>, <<"polls", pollId>>, <<"polls", pollId, "edit">>}
    [] op = "deletePoll" -> {<<"dashboard">>, <<"polls">>}
    [] op = "togglePollStatus" -> {<<"dashboard">>, <<"polls", pollId>>}
    [] op = "submitVote" -> {<<"polls", pollId>>, <<"polls">>}
    [] OTHER -> {}

\* a server action around its service call: try { call; revalidate;
\* return success } catch { return handleServerActionError(error) }.
\* data is the pollId of createPollAction and the isActive of
\* togglePollStatusAction.
ServerAction(op, pollId, error, ret) ==
  IF op \notin ActionOps
  THEN [thrown |-> FALSE, response |-> <<>>, revalidated |-> {}]
  ELSE IF error = NoError
  THEN [thrown |-> FALSE,
        response |-> [success |-> TRUE, error |-> "none", code |-> "none", data |-> ret],
        revalidated |-> RevalidatedPaths(op, pollId)]
  ELSE [thrown |-> FALSE,
        response |-> handleServerActionError(error),
        revalidated |-> {}]

Call(op, pollId, userId, input, error, ret, prior) ==
  [op |-> op, poll |-> pollId, user |-> userId, input |-> input,
   error |-> error, ret |-> ret, prior |-> prior,
   action |-> ServerAction(op, pollId, error, ret)]

Ok(c) == c.error = NoError

\* the error codes with which the store refuses an insert in this model:
\* one that convertSupabaseError maps to a ValidationError and one it maps
\* to a DatabaseError
InjectedCodes == {"23505", "XX000"}

\* poll row built by createPoll (pollData) and completed by the store
\* (id, created_at, updated_at defaults)
NewPollRow(id, formData, userId, nowT) ==
  [id |-> id,
   title |-> Trim(formData.title.v),
   description |-> IF formData.description.some /\ Truthy(Trim(formData.description.v))
                   THEN Some(Trim(formData.description.v)) ELSE Undefined,
   created_by |-> userId,
   created_at |-> nowT,
   updated_at |-> nowT,
   expires_at |-> formData.expiresAt,
   allow_multiple_votes |-> formData.allowMultipleVotes,
   is_anonymous |-> formData.isAnonymous,
   is_active |-> TRUE]

\* optionsData of createPoll with the poll_id createWithOptions fills in:
\* one row per entry of formData.options, in order
NewOptionRows(id, formData) ==
  {[id |-> OptionId(id, i), poll_id |-> id,
    text |-> Trim(formData.options.v[i]), order_index |-> i - 1] :
     i \in 1..Len(formData.options.v)}

\* PollService.createPoll -> PollRepository.createWithOptions
CreatePoll(formData, userId, yearLen) ==
  LET id == nextPollId
      fail(e) == Call("createPoll", 0, userId, formData, e, 0, {})
  IN
  /\ nextPollId <= MaxPolls
  /\ IF validateCreatePoll(formData, now, yearLen) # {}
     THEN /\ last' = fail(Err("ValidationError"))
          /\ UNCHANGED <<polls, options, votes, now, nextPollId, steps>>
     ELSE \/ /\ steps < MaxSteps
             /\ polls' = polls \cup {NewPollRow(id, formData, userId, now)}
             /\ options' = options \cup NewOptionRows(id, formData)
             /\ nextPollId' = nextPollId + 1
             /\ steps' = steps + 1
             /\ last' = Call("createPoll", id, userId, formData, NoError, id, {})
             /\ UNCHANGED <<votes, now>>
          \/ \* this.create(pollData) is refused by the store
             \E code \in InjectedCodes :
               /\ last' = fail(executeQueryError(code))
               /\ UNCHANGED <<polls, options, votes, now, nextPollId, steps>>
          \/ \* createOptions is refused: it throws, createWithOptions logs
             \* and rethrows
             \E code \in InjectedCodes :
               /\ steps < MaxSteps
               /\ polls' = polls \cup {NewPollRow(id, formData, userId, now)}
               /\ nextPollId' = nextPollId + 1
               /\ steps' = steps + 1
               /\ last' = Call("createPoll", id, userId, formData,
                               convertSupabaseError(code), 0, {})
               /\ UNCHANGED <<options, votes, now>>

\* PollService.getPoll as a call of its own
GetPoll(pollId) ==
  LET poll == getPoll(pollId) IN
  /\ last' = Call("getPoll", pollId, "u1", <<>>, poll.error,
                  IF poll.error = NoError THEN pollId ELSE 0, {})
  /\ UNCHANGED <<polls, options, votes, now, nextPollId, steps>>

\* a user id that is absent (undefined), falsy in JavaScript
NoUser == "none"

\* PollService.getPollStatistics: userId is optional
GetPollStatistics(pollId, userId) ==
  LET poll == getPoll(pollId)
      fail(e) == Call("getPollStatistics", pollId, userId, <<>>, e, 0, {})
  IN
  /\ IF poll.error # NoError
     THEN last' = fail(poll.error)
     ELSE IF userId # NoUser /\ poll.row.created_by # userId /\ ~poll.row.is_active
     THEN last' = fail(Err("UnauthorizedError"))
     ELSE last' = Call("getPollStatistics", pollId, userId, <<>>, NoError,
                       getStatistics(pollId), {})
  /\ UNCHANGED <<polls, options, votes, now, nextPollId, steps>>

\* mutant of isOwner: the ownership test is missing
isOwnerSkipped(existingPoll, userId) == TRUE

\* the ownership test of updatePoll, deletePoll and togglePollStatus
isOwner(existingPoll, userId) == existingPoll.created_by = userId

\* mutant of UpdatedRow: every field of the form is written, supplied or not
UpdatedRowAllFields(row, formData, nowT) ==
  [row EXCEPT
     !.updated_at = nowT,
     !.title = IF formData.title.some THEN Trim(formData.title.v) ELSE @,
     !.expires_at = formData.expiresAt,
     !.allow_multiple_votes = formData.allowMultipleVotes,
     !.is_anonymous = formData.isAnonymous,
     !.is_active = formData.isActive]

\* updateData of updatePoll applied to the row
UpdatedRow(row, formData, nowT) ==
  [row EXCEPT
     !.updated_at = nowT,
     !.title = IF "title" \in formData.fields THEN Trim(formData.title.v) ELSE @,
     !.description =
        IF "description" \in formData.fields
        THEN (IF formData.description.some /\ Truthy(Trim(formData.description.v))
              THEN Some(Trim(formData.description.v)) ELSE Undefined)
        ELSE @,
     !.expires_at = IF "expiresAt" \in formData.fields THEN formData.expiresAt ELSE @,
     !.allow_multiple_votes =
        IF "allowMultipleVotes" \in formData.fields
        THEN formData.allowMultipleVotes ELSE @,
     !.is_anonymous =
        IF "isAnonymous" \in formData.fields THEN formData.isAnonymous ELSE @,
     !.is_active = IF "isActive" \in formData.fields THEN formData.isActive ELSE @]

\* PollService.updatePoll
UpdatePoll(pollId, formData, userId, yearLen) ==
  LET existing == findById(pollId)
      fail(e) == Call("updatePoll", pollId, userId, formData, e, 0, {})
  IN
  IF existing.error # NoError
  THEN /\ last' = fail(existing.error)
       /\ UNCHANGED <<polls, options, votes, now, nextPollId, steps>>
  ELSE IF ~isOwner(existing.row, userId)
  THEN /\ last' = fail(Err("UnauthorizedError"))
       /\ UNCHANGED <<polls, options, votes, now, nextPollId, steps>>
  ELSE IF validateEditPoll(formData, now, yearLen) # {}
  THEN /\ last' = fail(Err("ValidationError"))
       /\ UNCHANGED <<polls, options, votes, now, nextPollId, steps>>
  ELSE /\ steps < MaxSteps
       /\ polls' = (polls \ {existing.row})
                     \cup {UpdatedRow(existing.row, formData, now)}
       /\ steps' = steps + 1
       /\ last' = Call("updatePoll", pollId, userId, formData, NoError, 0, {})
       /\ UNCHANGED <<options, votes, now, nextPollId>>

\* PollService.deletePoll; the store cascades the delete to the poll's
\* options and votes
DeletePoll(pollId, userId) ==
  LET existing == findById(pollId)
      fail(e) == Call("deletePoll", pollId, userId, <<>>, e, 0, {})
  IN
  IF existing.error # NoError
  THEN /\ last' = fail(existing.error)
       /\ UNCHANGED <<polls, options, votes, now, nextPollId, steps>>
  ELSE IF ~isOwner(existing.row, userId)
  THEN /\ last' = fail(Err("UnauthorizedError"))
       /\ UNCHANGED <<polls, options, votes, now, nextPollId, steps>>
  ELSE /\ steps < MaxSteps
       /\ steps' = steps + 1
       /\ polls' = polls \ {existing.row}
       /\ options' = {o \in options : o.poll_id # pollId}
       /\ votes' = {v \in votes : v.poll_id # pollId}
       /\ last' = Call("deletePoll", pollId, userId, <<>>, NoError, 0, {})
       /\ UNCHANGED <<now, nextPollId>>

\* mutant of updateStatus: the poll is deactivated whatever isActive is
updateStatusDeactivate(row, isActive, nowT) ==
  [row EXCEPT !.is_active = FALSE, !.updated_at = nowT]

\* PollRepository.updateStatus: the row after the update
updateStatus(row, isActive, nowT) ==
  [row EXCEPT !.is_active = isActive, !.updated_at = nowT]

\* PollService.togglePollStatus -> PollRepository.updateStatus
TogglePollStatus(pollId, userId) ==
  LET existing == findById(pollId)
      fail(e) == Call("togglePollStatus", pollId, userId, <<>>, e, 0, {})
      newStatus == ~existing.row.is_active
  IN
  IF existing.error # NoError
  THEN /\ last' = fail(existing.error)
       /\ UNCHANGED <<polls, options, votes, now, nextPollId, steps>>
  ELSE IF ~isOwner(existing.row, userId)
  THEN /\ last' = fail(Err("UnauthorizedError"))
       /\ UNCHANGED <<polls, options, votes, now, nextPollId, steps>>
  ELSE /\ steps < MaxSteps
       /\ steps' = steps + 1
       /\ polls' = (polls \ {existing.row})
                     \cup {updateStatus(existing.row, newStatus, now)}
       /\ last' = Call("togglePollStatus", pollId, userId, <<>>, NoError,
                       newStatus, {})
       /\ UNCHANGED <<options, votes, now, nextPollId>>

\* elements of a sequence
Range(s) == {s[i] : i \in 1..Len(s)}

\* PollValidators.validateVoteSubmission: the error messages for optionIds
validateVoteSubmission(optionIds, allowMultipleVotes) ==
  IF Len(optionIds) = 0 THEN {"At least one option must be selected"}
  ELSE (IF Cardinality(Range(optionIds)) # Len(optionIds)
        THEN {"Duplicate option selections are not allowed"} ELSE {})
       \cup (IF ~allowMultipleVotes /\ Len(optionIds) > 1
             THEN {"This poll only allows one vote per user"} ELSE {})
       \cup (IF \E i \in 1..Len(optionIds) : ~IsUuid(optionIds[i])
             THEN {"Option ID format is invalid"} ELSE {})

\* mutant of IsExpired: the expiration is not tested
IsExpiredNever(poll, nowT) == FALSE

\* submitVote's test of the expiration: new Date(expires_at) < new Date()
IsExpired(poll, nowT) == poll.expires_at # NoDate /\ poll.expires_at < nowT

\* mutant of invalidOptions: no id is reported
invalidOptionsNone(optionIds, poll_options) == <<>>

\* mutant of invalidOptions: only ids no row has are reported, whatever poll
\* the option belongs to
invalidOptionsAnyPoll(optionIds, poll_options) ==
  SelectSeq(optionIds, LAMBDA id : id \in {UnknownId, MalformedId})

\* submitVote's invalidOptions: the submitted ids that are not ids of the
\* poll's options
invalidOptions(optionIds, poll_options) ==
  SelectSeq(optionIds, LAMBDA id : id \notin {o.id : o \in Range(poll_options)})

\* mutant of deleteBy: nothing is deleted
deleteByNone(rows, field, value) == rows

\* BaseRepository.deleteBy on a table: delete().eq(field, value)
deleteBy(rows, field, value) == {r \in rows : r[field] # value}

\* mutant of DeleteExistingVotes: nothing is deleted
DeleteExistingVotesNone(rows, pollId, userId) == rows

\* the two deletes of VoteRepository.submitVotes
DeleteExistingVotes(rows, pollId, userId) ==
  deleteBy(deleteBy(rows, "poll_id", pollId), "user_id", userId)

\* votesData of VoteRepository.submitVotes
votesData(pollId, userId, optionIds, nowT) ==
  {[poll_id |-> pollId, option_id |-> optionIds[i], user_id |-> userId,
    created_at |-> nowT] : i \in 1..Len(optionIds)}

\* the key of a vote row: UNIQUE(poll_id, user_id, option_id)
VoteKey(v) == <<v.poll_id, v.user_id, v.option_id>>

\* the code of a row refused by a row-level security policy
insufficient_privilege == "42501"

\* mutant of votes_insert_policy: the table has no insert policy
votes_insert_policyAbsent(row, nowT) == TRUE

\* the policy "Users can vote on active polls" of table votes, FOR INSERT
\* WITH CHECK: the poll of the new row is active and not expired.  Its
\* condition does not refer to the session (auth.uid()), so it holds of
\* every insert whoever the client's session belongs to.
votes_insert_policy(row, nowT) ==
  \E p \in polls :
    /\ p.id = row.poll_id
    /\ p.is_active
    /\ (p.expires_at = NoDate \/ p.expires_at > nowT)

\* the store's verdict on the bulk insert of VoteRepository.submitVotes:
\* the insert policy, the key and the foreign key of table votes
InsertVerdict(remaining, inserted) ==
  IF \E v \in inserted : ~votes_insert_policy(v, now)
  THEN insufficient_privilege
  ELSE IF \E v \in inserted : \E w \in remaining : VoteKey(v) = VoteKey(w)
  THEN "23505"
  ELSE IF \E v \in inserted : \A o \in options : o.id # v.option_id
  THEN "23503"
  ELSE "ok"

\* PollService.submitVote -> VoteRepository.submitVotes
SubmitVote(pollId, optionIds, userId) ==
  LET poll == getPoll(pollId)
      prior == {v.option_id : v \in getUserVotes(pollId, userId)}
      fail(e) == Call("submitVote", pollId, userId, optionIds, e, 0, prior)
      remaining == DeleteExistingVotes(votes, pollId, userId)
      inserted == votesData(pollId, userId, optionIds, now)
      verdict == InsertVerdict(remaining, inserted)
  IN
  IF poll.error # NoError
  THEN /\ last' = fail(poll.error)
       /\ UNCHANGED <<polls, options, votes, now, nextPollId, steps>>
  ELSE IF ~poll.row.is_active
  THEN /\ last' = fail(Err("PollInactiveError"))
       /\ UNCHANGED <<polls, options, votes, now, nextPollId, steps>>
  ELSE IF IsExpired(poll.row, now)
  THEN /\ last' = fail(Err("PollExpiredError"))
       /\ UNCHANGED <<polls, options, votes, now, nextPollId, steps>>
  ELSE IF validateVoteSubmission(optionIds, poll.row.allow_multiple_votes) # {}
  THEN /\ last' = fail(Err("ValidationError"))
       /\ UNCHANGED <<polls, options, votes, now, nextPollId, steps>>
  ELSE IF invalidOptions(optionIds, poll.poll_options) # <<>>
  THEN /\ last' = fail(Err("BusinessLogicError"))
       /\ UNCHANGED <<polls, options, votes, now, nextPollId, steps>>
  ELSE /\ steps < MaxSteps
       /\ steps' = steps + 1
       /\ \/ /\ verdict = "ok"
             /\ votes' = remaining \cup inserted
             /\ last' = Call("submitVote", pollId, userId, optionIds, NoError,
                             0, prior)
          \/ \* the deletes have run, createMany is refused and throws
             \E code \in InjectedCodes \cup ({verdict} \ {"ok"}) :
               /\ votes' = remaining
               /\ last' = fail(executeQueryError(code))
       /\ UNCHANGED <<polls, options, now, nextPollId>>

\* time passes between calls
Tick ==
  /\ steps < MaxSteps
  /\ steps' = steps + 1
  /\ now' = now + 1
  /\ UNCHANGED <<polls, options, votes, nextPollId, last>>

(***************************************************************************)
(* Inputs.                                                                 *)
(***************************************************************************)
CreateForm(title, opts, expiresAt, allowMultipleVotes) ==
  [title |-> title, description |-> Undefined, options |-> Some(opts),
   expiresAt |-> expiresAt, allowMultipleVotes |-> allowMultipleVotes,
   isAnonymous |-> FALSE]

CreateForms(nowT) ==
  {CreateForm(Some(sPadA), <<sA, sB>>, NoDate, FALSE),
   CreateForm(Some(sA), <<sPadA, sB, sC>>, nowT + 1, TRUE),
   CreateForm(Some(sA), <<sA, sBlank, sB>>, NoDate, FALSE)}
  \cup {CreateForm(Some(sEmpty), <<sA, sB>>, NoDate, FALSE),
        CreateForm(Some(sA), <<sA>>, NoDate, FALSE),
        CreateForm(Some(sA), <<sA, sLowA>>, NoDate, FALSE),
        CreateForm(Some(sA), <<sA, sB>>, nowT, FALSE)}

EditForm(fields, title, expiresAt, allowMultipleVotes, isActive) ==
  [fields |-> fields, title |-> title, description |-> Undefined,
   expiresAt |-> expiresAt, allowMultipleVotes |-> allowMultipleVotes,
   isAnonymous |-> FALSE, isActive |-> isActive]

EditForms(nowT) ==
  {EditForm({}, Undefined, NoDate, FALSE, FALSE),
   EditForm({"title"}, Some(sB), NoDate, FALSE, FALSE),
   EditForm({"title"}, Some(sBlank), NoDate, FALSE, FALSE),
   EditForm({"expiresAt"}, Undefined, nowT + 1, FALSE, FALSE),
   EditForm({"expiresAt"}, Undefined, nowT, FALSE, FALSE),
   EditForm({"allowMultipleVotes"}, Undefined, NoDate, TRUE, FALSE),
   EditForm({"allowMultipleVotes"}, Undefined, NoDate, FALSE, FALSE),
   EditForm({"isActive"}, Undefined, NoDate, FALSE, TRUE),
   EditForm({"isActive"}, Undefined, NoDate, FALSE, FALSE),
   [EditForm({"description"}, Undefined, NoDate, FALSE, FALSE)
      EXCEPT !.description = Some(sPadA)],
   [EditForm({"isAnonymous"}, Undefined, NoDate, FALSE, FALSE)
      EXCEPT !.isAnonymous = TRUE],
   EditForm({"title", "isActive"}, Some(sB), NoDate, FALSE, FALSE)}

\* ids a caller may name as poll ids: every id the store can generate
CallPollIds == 1..MaxPolls

\* ids a caller may submit as option ids for a poll: the ids of its
\* options, an id of UUID shape that is not one of them (the first option
\* of another poll when there is one, else an id no row has) and a
\* malformed id
CandidateOptionIds(pollId) ==
  LET foreign == {o.id : o \in {q \in options : q.poll_id # pollId /\ q.order_index = 0}}
  IN {o.id : o \in {q \in options : q.poll_id = pollId}}
       \cup (IF foreign # {} THEN foreign ELSE {UnknownId})
       \cup {MalformedId}

OptionIdLists(pollId) ==
  LET ids == CandidateOptionIds(pollId) IN
  {<<>>} \cup {<<a>> : a \in ids}
    \cup {<<pr[1], pr[2]>> : pr \in {q \in ids \X ids : q[1] <= q[2]}}

\* the length of the calendar year that starts now (the expiration dates
\* submitted here are far from the one-year limit)
YearLength == 365

(***************************************************************************)
(* The trigger update_vote_counts of the documented schema: AFTER INSERT   *)
(* OR DELETE ON votes FOR EACH ROW, whatever statement changes the rows    *)
(* (a delete of the repository, an insert, the cascade of a deleted poll). *)
(* The columns start at their default 0 when a row is inserted.  The       *)
(* trigger's update of polls also renews polls.updated_at, which is left   *)
(* out here.                                                               *)
(***************************************************************************)
\* mutant of update_poll_vote_counts: the trigger fires on INSERT only
update_poll_vote_countsInsertOnly(count, deleted, inserted) ==
  count + Cardinality(inserted)

\* votes_count of an option after the trigger has run for the deleted and
\* the inserted vote rows that reference it: - 1 and + 1 for each
update_poll_vote_counts(count, deleted, inserted) ==
  count - Cardinality(deleted) + Cardinality(inserted)

\* the counters after a step of the store
update_vote_counts ==
  LET deleted == votes \ votes'
      inserted == votes' \ votes
      before(f, id) == IF id \in DOMAIN f THEN f[id] ELSE 0
  IN counters' =
       [votes_count |->
          [o \in {r.id : r \in options'} |->
             update_poll_vote_counts(before(counters.votes_count, o),
                                     {v \in deleted : v.option_id = o},
                                     {v \in inserted : v.option_id = o})],
        total_votes |->
          [p \in {r.id : r \in polls'} |->
             IF \E v \in deleted \cup inserted : v.poll_id = p
             THEN Cardinality({v \in votes' : v.poll_id = p})
             ELSE before(counters.total_votes, p)]]

NoCounters == [votes_count |-> <<>>, total_votes |-> <<>>]

\* the counters of a store whose vote rows vs were inserted one by one
CountersAfter(ps, os, vs) ==
  [votes_count |->
     [o \in {r.id : r \in os} |->
        update_poll_vote_counts(0, {}, {v \in vs : v.option_id = o})],
   total_votes |->
     [p \in {r.id : r \in ps} |-> Cardinality({v \in vs : v.poll_id = p})]]

(***************************************************************************)
(* Specification.                                                          *)
(***************************************************************************)
\* the caller receives the outcome of its call; calls are served one at a
\* time
Idle == Call("none", 0, "u1", <<>>, NoError, 0, {})

Init ==
  /\ polls = {}
  /\ options = {}
  /\ votes = {}
  /\ now = 0
  /\ nextPollId = 1
  /\ steps = 0
  /\ last = Idle
  /\ inflight = <<>>
  /\ counters = NoCounters

Return ==
  /\ last # Idle
  /\ last' = Idle
  /\ UNCHANGED <<polls, options, votes, now, nextPollId, steps>>

Serve ==
  \/ \E f \in CreateForms(now), u \in Users : CreatePoll(f, u, YearLength)
  \/ \E p \in CallPollIds : GetPoll(p)
  \/ \E p \in CallPollIds, u \in Users \cup {NoUser} : GetPollStatistics(p, u)
  \/ \E p \in CallPollIds, f \in EditForms(now), u \in Users :
       UpdatePoll(p, f, u, YearLength)
  \/ \E p \in CallPollIds, u \in Users : DeletePoll(p, u)
  \/ \E p \in CallPollIds, u \in Users : TogglePollStatus(p, u)
  \/ \E p \in CallPollIds, u \in Users :
       \E ids \in OptionIdLists(p) : SubmitVote(p, ids, u)

Next ==
  \/ last = Idle /\ Serve /\ update_vote_counts /\ UNCHANGED inflight
  \/ last = Idle /\ Tick /\ UNCHANGED <<inflight, counters>>
  \/ Return /\ UNCHANGED <<inflight, counters>>

Spec == Init /\ [][Next]_vars

(***************************************************************************)
(* Claims.  A state with last # Idle is the state right after the call     *)
(* recorded in last; in a step that serves a call the unprimed variables   *)
(* are the store before the call and the primed ones the store after it.   *)
(***************************************************************************)
Served == last = Idle /\ last' # Idle

OwnerOps == {"updatePoll", "deletePoll", "togglePollStatus"}

\* C1: updatePoll, deletePoll and togglePollStatus called for an existing
\* poll by a user who is not its creator fail with UnauthorizedError and
\* leave the poll rows, the option rows and the vote rows unchanged.
C1_NonOwnerRefused ==
  [][(/\ Served
      /\ last'.op \in OwnerOps
      /\ last'.poll \in PollIds
      /\ PollRow(last'.poll).created_by # last'.user)
     => (/\ last'.error = Err("UnauthorizedError")
         /\ polls' = polls /\ options' = options /\ votes' = votes)]_vars

\* a non-owner's deletePoll has been refused on a poll that holds votes
C1_Witness ==
  /\ last.op = "deletePoll"
  /\ last.error = Err("UnauthorizedError")
  /\ last.poll \in PollIds
  /\ PollRow(last.poll).created_by # last.user
  /\ \E v \in votes : v.poll_id = last.poll

\* C2: submitVote(P, optionIds, V) keeps every vote row that another voter
\* cast on P.
C2_OtherVotersKept ==
  [][(Served /\ last'.op = "submitVote")
     => \A v \in votes :
          (v.poll_id = last'.poll /\ v.user_id # last'.user) => v \in votes']_vars

\* C3: after a successful submitVote on a single-vote poll, getUserVote of
\* the voter reports hasVoted and exactly the option ids just submitted,
\* also when the voter held another option before.
C3_RevoteReplaces ==
  (/\ last.op = "submitVote"
   /\ Ok(last)
   /\ ~PollRow(last.poll).allow_multiple_votes)
  => getUserVote(last.poll, last.user)
       = [hasVoted |-> TRUE, optionIds |-> Range(last.input), count |-> 1]

\* a voter who held option a has voted for another option b
C3_Witness ==
  /\ last.op = "submitVote"
  /\ Ok(last)
  /\ ~PollRow(last.poll).allow_multiple_votes
  /\ last.prior # {}
  /\ last.prior \cap Range(last.input) = {}

\* ids of the options of a poll
OptionIdsOf(pollId) == {o.id : o \in {q \in options : q.poll_id = pollId}}

NamesForeignOption(c) == \E i \in 1..Len(c.input) : c.input[i] \notin OptionIdsOf(c.poll)

\* C4 as stated: submitVote naming an id that is not an option of the poll
\* fails with a BusinessLogicError and leaves the votes unchanged.
C4_Original ==
  [][(/\ Served
      /\ last'.op = "submitVote"
      /\ last'.poll \in PollIds
      /\ NamesForeignOption(last'))
     => (IsBusinessLogicError(last'.error) /\ votes' = votes)]_vars

Votable(pollId, nowT) ==
  PollRow(pollId).is_active /\ ~IsExpired(PollRow(pollId), nowT)

\* C4 amended: submitVote naming an id that is not an option of the poll
\* fails and leaves the votes unchanged; the error is a ValidationError
\* when the poll is active and unexpired and the list fails
\* validateVoteSubmission, and a BusinessLogicError otherwise.
C4_ForeignOptionRefused ==
  [][(/\ Served
      /\ last'.op = "submitVote"
      /\ last'.poll \in PollIds
      /\ NamesForeignOption(last'))
     => (/\ votes' = votes
         /\ IF /\ Votable(last'.poll, now)
               /\ validateVoteSubmission(
                    last'.input, PollRow(last'.poll).allow_multiple_votes) # {}
            THEN last'.error = Err("ValidationError")
            ELSE IsBusinessLogicError(last'.error))]_vars

\* a vote for an option of another poll has been refused while votes exist
C4_Witness ==
  /\ last.op = "submitVote"
  /\ last.error = Err("BusinessLogicError")
  /\ \E i \in 1..Len(last.input) : \E o \in options :
       o.id = last.input[i] /\ o.poll_id # last.poll
  /\ votes # {}

\* C5: submitVote on an inactive poll fails with PollInactiveError, on an
\* active poll whose expires_at is earlier than now with PollExpiredError,
\* and the votes are unchanged in both cases.
C5_ClosedPollRefused ==
  [][(/\ Served
      /\ last'.op = "submitVote"
      /\ last'.poll \in PollIds)
     => LET poll == PollRow(last'.poll) IN
        /\ ~poll.is_active
             => (last'.error = Err("PollInactiveError") /\ votes' = votes)
        /\ (poll.is_active /\ poll.expires_at # NoDate /\ poll.expires_at < now)
             => (last'.error = Err("PollExpiredError") /\ votes' = votes)]_vars

\* a well-formed vote for an option of an active poll whose expiration has
\* passed was refused
C5_Witness ==
  /\ last.op = "submitVote"
  /\ last.error = Err("PollExpiredError")
  /\ PollRow(last.poll).is_active
  /\ PollRow(last.poll).expires_at < now
  /\ Len(last.input) = 1
  /\ last.input[1] \in OptionIdsOf(last.poll)

\* C6: submitVote on an existing poll with an empty list, a duplicate id,
\* or several ids on a single-vote poll fails with a ValidationError and
\* leaves the votes unchanged.
C6_ValidationFirst ==
  [][(/\ Served
      /\ last'.op = "submitVote"
      /\ last'.poll \in PollIds
      /\ \/ Len(last'.input) = 0
         \/ Cardinality(Range(last'.input)) # Len(last'.input)
         \/ Len(last'.input) > 1 /\ ~PollRow(last'.poll).allow_multiple_votes)
     => (last'.error = Err("ValidationError") /\ votes' = votes)]_vars

\* C7: a createPoll that fails leaves no poll row behind: when the option
\* insert is refused after the poll insert, the poll row is removed again.
C7_NoPollLeftBehind ==
  [][(Served /\ last'.op = "createPoll" /\ ~Ok(last')) => polls' = polls]_vars

\* the texts of a sequence of option rows
Texts(rows) == [i \in 1..Len(rows) |-> rows[i].text]

\* the valid options of a form: non-empty after trimming, trimmed
ValidOptionTexts(opts) ==
  LET valid == FilterNonEmpty(opts) IN [i \in 1..Len(valid) |-> Trim(valid[i])]

\* C8: after a successful createPoll, getPoll of the returned id yields as
\* options exactly the valid input options, in the submitted order.
C8_OptionsRoundTrip ==
  (last.op = "createPoll" /\ Ok(last))
  => Texts(getPoll(last.ret).poll_options) = ValidOptionTexts(last.input.options.v)

\* vote rows of a poll
VotesOf(pollId) == {v \in votes : v.poll_id = pollId}

\* C9: getStatistics reports as totalVotes the number of vote rows of the
\* poll and as uniqueVoters the number of distinct voters among them.
C9_UniqueVoters ==
  \A p \in PollIds :
    /\ getStatistics(p).totalVotes = Cardinality(VotesOf(p))
    /\ getStatistics(p).uniqueVoters = Cardinality({v.user_id : v \in VotesOf(p)})

\* C10: in getStatistics, every percentage is 0 when totalVotes is 0;
\* otherwise the votes of the poll's options sum to totalVotes and the
\* percentages votes / totalVotes * 100 sum to 100.
C10_PercentagesSum ==
  \A p \in PollIds :
    LET stats == getStatistics(p)
        idx == 1..Len(stats.optionStats)
        votesAt == [i \in idx |-> stats.optionStats[i].votes]
        pctNumAt == [i \in idx |-> stats.optionStats[i].pctNum]
    IN IF stats.totalVotes = 0
       THEN \A i \in idx : stats.optionStats[i].pctNum = 0
       ELSE /\ SumOver(votesAt, idx) = stats.totalVotes
            /\ \A i \in idx : stats.optionStats[i].pctDen = stats.totalVotes
            /\ SumOver(pctNumAt, idx) = 100 * stats.totalVotes

\* a poll holds votes for two of its options
C10_Witness ==
  \E p \in PollIds :
    /\ getStatistics(p).totalVotes >= 2
    /\ \E i, j \in 1..Len(getStatistics(p).optionStats) :
         /\ i # j
         /\ getStatistics(p).optionStats[i].votes > 0
         /\ getStatistics(p).optionStats[j].votes > 0

\* C11: getPoll, updatePoll, deletePoll and togglePollStatus called with an
\* id no poll row has fail with PollNotFoundError, not with a data-access
\* error, and change no stored state.
C11_MissingPollNotFound ==
  [][(/\ Served
      /\ last'.op \in OwnerOps \cup {"getPoll"}
      /\ last'.poll \notin PollIds)
     => (/\ last'.error.class = "PollNotFoundError"
         /\ ~IsDatabaseError(last'.error)
         /\ polls' = polls /\ options' = options /\ votes' = votes)]_vars

\* the message of the underlying cause of a data-access error
CauseMessage(e) ==
  IF e.original = "StoreError" THEN StoreMessage ELSE ClassMessage(e.original)

\* C12: the response of a server action whose service call failed with a
\* data-access error carries a generic message that is not the message of
\* the underlying cause, and so does the body createErrorResponse builds; a
\* validation or business-rule error gives its own message.
C12_GenericInternalMessage ==
  (last.op \in ActionOps /\ ~Ok(last))
  => /\ IsDatabaseError(last.error)
          => /\ last.action.response.error # CauseMessage(last.error)
             /\ createErrorResponse(last.error).message # CauseMessage(last.error)
     /\ (last.error.class = "ValidationError" \/ IsBusinessLogicError(last.error))
          => last.action.response.error = last.error.message

\* C13: a server action never throws; when its service call failed its
\* response is handleServerActionError of the error (success = false, the
\* error's message and code) and no path is revalidated; when the call
\* succeeded the response has success = true and the action's paths are
\* revalidated.
C13_ActionsNeverThrow ==
  last.op \in ActionOps
  => /\ ~last.action.thrown
     /\ last.action.response.success = Ok(last)
     /\ ~Ok(last)
          => /\ last.action.response.error = last.error.message
             /\ last.action.response.code = getErrorCode(last.error)
             /\ last.action.revalidated = {}
     /\ Ok(last)
          => /\ last.action.response.error = "none"
             /\ last.op \in {"createPoll", "deletePoll"}
                  => last.action.revalidated = {<<"dashboard">>, <<"polls">>}
             /\ last.op = "updatePoll"
                  => last.action.revalidated
                       = {<<"dashboard">>, <<"polls", last.poll>>,
                          <<"polls", last.poll, "edit">>}
             /\ last.op = "togglePollStatus"
                  => /\ last.action.revalidated = {<<"dashboard">>, <<"polls", last.poll>>}
                     /\ last.action.response.data = PollRow(last.poll).is_active
             /\ last.op = "submitVote"
                  => last.action.revalidated = {<<"polls", last.poll>>, <<"polls">>}
             /\ last.op = "createPoll" => last.action.response.data \in PollIds

\* an action whose service call threw after the store had been written (the
\* option insert of createPoll was refused) has returned the error
C13_Witness ==
  /\ last.op = "createPoll"
  /\ ~Ok(last)
  /\ last.poll \in PollIds
  /\ last.action.response.success = FALSE
  /\ last.action.revalidated = {}

\* the row of a poll after the step
PollRowAfter(id) == CHOOSE p \in polls' : p.id = id

\* C14: togglePollStatus by the owner stores the negation of the poll's
\* is_active and returns the stored value; toggling the stored row once more
\* restores the original value; no field of the poll other than is_active
\* and updated_at changes, and no other row changes.
C14_ToggleNegates ==
  [][(Served /\ last'.op = "togglePollStatus" /\ Ok(last'))
     => LET old == PollRow(last'.poll)
            new == PollRowAfter(last'.poll)
        IN /\ new.is_active = ~old.is_active
           /\ last'.ret = new.is_active
           /\ last'.action.response.data = new.is_active
           /\ updateStatus(new, ~new.is_active, now).is_active = old.is_active
           /\ [new EXCEPT !.is_active = old.is_active, !.updated_at = old.updated_at] = old
           /\ polls' \ {new} = polls \ {old}
           /\ options' = options /\ votes' = votes]_vars

\* the owner has toggled a poll, created active and made inactive since,
\* back to active
C14_Witness ==
  /\ last.op = "togglePollStatus"
  /\ Ok(last)
  /\ last.ret = TRUE
  /\ PollRow(last.poll).is_active
  /\ last.action.response.data = TRUE

\* the polls that are active and whose expiration, if any, is later than now
ActiveUnexpired == {p \in polls : p.is_active /\ (p.expires_at = NoDate \/ p.expires_at > now)}

\* C15: getActivePolls, in the service layer and in the direct-query
\* service GET /api/polls is built on, returns exactly the active polls
\* whose expires_at is null or later than now (fewer than a page of them
\* exist).
C15_OnlyActiveUnexpired ==
  /\ getActivePolls(now) = ActiveUnexpired
  /\ getActivePollsDirect = ActiveUnexpired

(***************************************************************************)
(* The validators, and the error handling of executeQuery, as pure         *)
(* functions.  A second specification applies them to inputs drawn from    *)
(* bounded sets and records each application in last, and calls createPoll *)
(* with every sample title.                                                *)
(***************************************************************************)
MaxListLen == 3

OptionSamples == {sEmpty, sBlank, sA, sLowA, sPadA, sB, sMax, sOver}

\* n distinct one-run strings: "y", "yy", ...
Distinct(n) == [i \in 1..n |-> <<Run("y", i)>>]

\* lists around the upper limit of the number of options
LongLists ==
  {Distinct(n) : n \in (maxOptions - 1)..(maxOptions + 2)}
    \cup {Distinct(maxOptions) \o <<sBlank>>,
          <<sEmpty>> \o Distinct(maxOptions + 1),
          Distinct(maxOptions - 1) \o <<sOver>>,
          Distinct(maxOptions - 2) \o <<sLowA, sPadA>>}

ShortLists == UNION {[1..n -> OptionSamples] : n \in 0..MaxListLen}

OptionLists == {Undefined} \cup {Some(l) : l \in ShortLists \cup LongLists}

Applied(op, input, errors) == [op |-> op, input |-> input, errors |-> errors]

ValidateOptions(opts) ==
  /\ last' = Applied("validateOptions", opts, validateOptions(opts))
  /\ UNCHANGED <<polls, options, votes, now, nextPollId, steps>>

\* sample titles: absent, empty, blank, short, padded, at the limit, over
\* it, and at or over the limit with surrounding blanks
sPadMax == <<Run(" ", 1), Run("x", 200), Run(" ", 2)>>
sPadOver == <<Run(" ", 1), Run("x", 201), Run(" ", 1)>>

TitleSamples ==
  {Undefined} \cup {Some(t) : t \in {sEmpty, sBlank, sA, sPadA, sMax, sOver,
                                     sPadMax, sPadOver}}

ValidateTitle(title) ==
  /\ last' = Applied("validateTitle", title, validateTitle(title))
  /\ UNCHANGED <<polls, options, votes, now, nextPollId, steps>>

\* the lengths a calendar year can have
YearLengths == {365, 366}

\* sample dates: absent, invalid, past, now, and around one year from now
DateSamples(nowT) ==
  {NoDate, InvalidDate, nowT - 1, nowT, nowT + 1}
    \cup {nowT + k : k \in 364..367}

ValidateExpirationDate(expiresAt, yearLen) ==
  /\ last' = Applied("validateExpirationDate",
                     [expiresAt |-> expiresAt, nowT |-> now, yearLen |-> yearLen],
                     validateExpirationDate(expiresAt, now, yearLen))
  /\ UNCHANGED <<polls, options, votes, now, nextPollId, steps>>

\* a repository operation whose query the store fails with the code
ExecuteQuery(code) ==
  /\ last' = [op |-> "executeQuery", input |-> code,
              error |-> executeQueryError(code)]
  /\ UNCHANGED <<polls, options, votes, now, nextPollId, steps>>

InitV ==
  /\ polls = {}
  /\ options = {}
  /\ votes = {}
  /\ now \in {1, 2}
  /\ nextPollId = 1
  /\ steps = 0
  /\ last = Idle
  /\ inflight = <<>>
  /\ counters = NoCounters

Apply ==
  \/ \E opts \in OptionLists : ValidateOptions(opts)
  \/ \E t \in TitleSamples : ValidateTitle(t)
  \/ \E d \in DateSamples(now), y \in YearLengths : ValidateExpirationDate(d, y)
  \/ \E code \in StoreErrorCodes : ExecuteQuery(code)
  \/ \E t \in TitleSamples :
       CreatePoll(CreateForm(t, <<sA, sB>>, NoDate, FALSE), "u1", YearLength)

NextV ==
  \/ last = Idle /\ Apply /\ update_vote_counts /\ UNCHANGED inflight
  \/ Return /\ UNCHANGED <<inflight, counters>>

ValidatorSpec == InitV /\ [][NextV]_vars

\* the entries of an option list that are not empty after trimming
Remaining(opts) == SelectSeq(opts, LAMBDA o : StrLen(Trim(o)) > 0)

\* an option ignoring case and surrounding whitespace
Normal(o) == ToLowerCase(Trim(o))

\* C16: validateOptions returns isValid = true exactly when, after removing
\* the entries that are empty after trimming, between 2 and 10 entries
\* remain, no two of them are equal ignoring case and surrounding
\* whitespace, and each is at most 200 characters long; an absent list
\* is invalid.
C16_OptionsValidIff ==
  last.op = "validateOptions" =>
    (IsValid(last.errors) <=>
       /\ last.input.some
       /\ LET r == Remaining(last.input.v) IN
          /\ Len(r) >= 2
          /\ Len(r) <= 10
          /\ \A i, j \in 1..Len(r) : i # j => Normal(r[i]) # Normal(r[j])
          /\ \A i \in 1..Len(r) : StrLen(Trim(r[i])) <= 200)

\* validateOptions has accepted a list with a blank entry and an entry of
\* 200 characters, and refused one for a duplicate that differs in case
C16_Witness ==
  /\ last.op = "validateOptions"
  /\ last.input = Some(<<sBlank, sMax, sPadA>>)
  /\ IsValid(last.errors)
  /\ ~IsValid(validateOptions(Some(<<sA, sLowA>>)))
  /\ IsValid(validateOptions(Some(Distinct(10) \o <<sBlank>>)))
  /\ ~IsValid(validateOptions(Some(Distinct(11))))

\* a title that is absent, empty after trimming, or longer than 200
\* characters after trimming
BadTitle(t) ==
  \/ ~t.some
  \/ StrLen(Trim(t.v)) = 0
  \/ StrLen(Trim(t.v)) > 200

\* C17: validateTitle returns isValid = false exactly when the title is
\* absent, is empty after trimming, or its trimmed length exceeds 200; and
\* createPoll with such a title fails and creates no poll row.
C17_TitleInvalidIff ==
  [][/\ last'.op = "validateTitle" =>
          (~IsValid(last'.errors) <=> BadTitle(last'.input))
     /\ (Served /\ last'.op = "createPoll" /\ BadTitle(last'.input.title)) =>
          /\ ~Ok(last')
          /\ last'.error.class = "ValidationError"
          /\ polls' = polls
          /\ options' = options]_vars

\* createPoll has been refused for a title of 201 characters between
\* blanks, after a poll whose title has 200 characters was created from a
\* padded title
C17_Witness ==
  /\ last.op = "createPoll"
  /\ last.input.title = Some(sPadOver)
  /\ last.error.class = "ValidationError"
  /\ \E p \in polls : p.title = sMax
  /\ IsValid(validateTitle(Some(sPadMax)))
  /\ ~IsValid(validateTitle(Some(sBlank)))

\* C18 as stated: an absent date is accepted; for a supplied date d 'must
\* be in the future' is reported exactly when d is not strictly later than
\* the current time, and 'more than 1 year' exactly when d is more than 365
\* days after the current time (a supplied date being a valid one).
C18_Original ==
  last.op = "validateExpirationDate" =>
    LET d == last.input.expiresAt
        nowT == last.input.nowT
        future == "Expiration date must be in the future"
        year == "Expiration date cannot be more than 1 year in the future"
    IN IF d = NoDate THEN IsValid(last.errors)
       ELSE d # InvalidDate =>
              /\ future \in Range(last.errors) <=> ~(d > nowT)
              /\ year \in Range(last.errors) <=> (d - nowT > 365)

\* C18: an absent date and an invalid Date are accepted with no message;
\* for a valid date d 'must be in the future' is reported exactly when d
\* is not strictly later than the current time, and 'more than 1 year'
\* exactly when d is later than the current time with its calendar year
\* advanced by one (365 or 366 days after the current time).
C18_ExpirationDate ==
  last.op = "validateExpirationDate" =>
    LET d == last.input.expiresAt
        nowT == last.input.nowT
        yearLen == last.input.yearLen
        future == "Expiration date must be in the future"
        year == "Expiration date cannot be more than 1 year in the future"
    IN IF d \in {NoDate, InvalidDate} THEN IsValid(last.errors)
       ELSE /\ future \in Range(last.errors) <=> ~(d > nowT)
            /\ year \in Range(last.errors) <=> (d - nowT > yearLen)
            /\ Len(last.errors) <= 1

\* a date 366 days ahead has been accepted within a year of 366 days, and
\* the same date is refused within a year of 365 days
C18_Witness ==
  /\ last.op = "validateExpirationDate"
  /\ last.input.expiresAt = last.input.nowT + 366
  /\ last.input.yearLen = 366
  /\ IsValid(last.errors)
  /\ ~IsValid(validateExpirationDate(now + 366, now, 365))
  /\ ~IsValid(validateExpirationDate(now, now, 365))

\* the fields of a poll row an edit form can supply, with the form's name
\* of each
EditableFields ==
  {<<"title", "title">>, <<"description", "description">>,
   <<"expiresAt", "expires_at">>,
   <<"allowMultipleVotes", "allow_multiple_votes">>,
   <<"isAnonymous", "is_anonymous">>, <<"isActive", "is_active">>}

\* C19: updatePoll never changes a poll's options or its votes, adds or
\* removes no poll, changes no other poll, and in the poll it names leaves
\* id, creator and creation time and every field absent from the form
\* unchanged (updated_at apart); when the call fails, nothing changes.
C19_UpdateFrame ==
  [][(Served /\ last'.op = "updatePoll") =>
       LET c == last' IN
       /\ options' = options
       /\ votes' = votes
       /\ {p.id : p \in polls'} = PollIds
       /\ \A p \in polls :
            LET q == PollRowAfter(p.id) IN
            /\ p.id # c.poll => q = p
            /\ q.id = p.id /\ q.created_by = p.created_by
            /\ q.created_at = p.created_at
            /\ \A f \in EditableFields :
                 f[1] \notin c.input.fields => q[f[2]] = p[f[2]]
       /\ ~Ok(c) => polls' = polls]_vars

\* a poll that has options and a vote has been given a new title, and an
\* update with a blank title is refused by validation
C19_Witness ==
  /\ last.op = "updatePoll"
  /\ Ok(last)
  /\ last.input.fields = {"title"}
  /\ last.poll \in PollIds
  /\ PollRow(last.poll).title = sB
  /\ PollRow(last.poll).is_active
  /\ \E v \in votes : v.poll_id = last.poll
  /\ Cardinality({o \in options : o.poll_id = last.poll}) >= 2
  /\ validateEditPoll(EditForm({"title"}, Some(sBlank), NoDate, FALSE, FALSE),
                      now, YearLength) # {}

(***************************************************************************)
(* Two submitVote calls side by side.  Every await of submitVote and of    *)
(* VoteRepository.submitVotes is a point where the other call may run: a   *)
(* third specification takes the two calls through their store requests    *)
(* one request at a time, on a single-vote poll as createPoll leaves it.   *)
(* steps numbers the store writes, so that deletedAt and insertedAt order  *)
(* the second delete and the insert of the two calls.                      *)
(***************************************************************************)
Calls == {1, 2}
RacePoll == 1

Waiting(u) ==
  [pc |-> "idle", user |-> u, optionIds |-> <<>>, error |-> NoError,
   deletedAt |-> 0, insertedAt |-> 0]

InitC ==
  LET form == CreateForm(Some(sA), <<sA, sB>>, NoDate, FALSE) IN
  /\ polls = {NewPollRow(RacePoll, form, "u1", 0)}
  /\ options = NewOptionRows(RacePoll, form)
  /\ \E u \in Users :
       /\ inflight = [i \in Calls |-> Waiting(u)]
       /\ votes \in {{}, votesData(RacePoll, u, <<OptionId(RacePoll, 1)>>, 0)}
  /\ now = 0
  /\ nextPollId = RacePoll + 1
  /\ steps = 0
  /\ last = Idle
  /\ counters = CountersAfter(polls, options, votes)

\* submitVote up to the call of voteRepository.submitVotes: getPoll and
\* the checks
BeginSubmitVote(i, optionIds) ==
  LET c == inflight[i]
      poll == getPoll(RacePoll)
      e == IF poll.error # NoError THEN poll.error
           ELSE IF ~poll.row.is_active THEN Err("PollInactiveError")
           ELSE IF IsExpired(poll.row, now) THEN Err("PollExpiredError")
           ELSE IF validateVoteSubmission(optionIds, poll.row.allow_multiple_votes) # {}
           THEN Err("ValidationError")
           ELSE IF invalidOptions(optionIds, poll.poll_options) # <<>>
           THEN Err("BusinessLogicError")
           ELSE NoError
  IN
  /\ c.pc = "idle"
  /\ inflight' = [inflight EXCEPT ![i] =
                    [c EXCEPT !.optionIds = optionIds, !.error = e,
                              !.pc = IF e = NoError THEN "submitVotes" ELSE "failed"]]
  /\ UNCHANGED <<polls, options, votes, now, nextPollId, steps, last>>

\* await this.deleteBy('poll_id', pollId)
DeleteByPoll(i) ==
  /\ inflight[i].pc = "submitVotes"
  /\ votes' = deleteBy(votes, "poll_id", RacePoll)
  /\ steps' = steps + 1
  /\ inflight' = [inflight EXCEPT ![i].pc = "deletedPoll"]
  /\ UNCHANGED <<polls, options, now, nextPollId, last>>

\* await this.deleteBy('user_id', userId)
DeleteByUser(i) ==
  /\ inflight[i].pc = "deletedPoll"
  /\ votes' = deleteBy(votes, "user_id", inflight[i].user)
  /\ steps' = steps + 1
  /\ inflight' = [inflight EXCEPT ![i].pc = "deletedUser",
                                  ![i].deletedAt = steps + 1]
  /\ UNCHANGED <<polls, options, now, nextPollId, last>>

\* await this.createMany(votesData), and the return or throw of the call
CreateMany(i) ==
  LET c == inflight[i]
      inserted == votesData(RacePoll, c.user, c.optionIds, now)
      verdict == InsertVerdict(votes, inserted)
  IN
  /\ c.pc = "deletedUser"
  /\ steps' = steps + 1
  /\ \/ /\ verdict = "ok"
        /\ votes' = votes \cup inserted
        /\ inflight' = [inflight EXCEPT ![i].pc = "done",
                                        ![i].insertedAt = steps + 1]
     \/ \E code \in InjectedCodes \cup ({verdict} \ {"ok"}) :
          /\ votes' = votes
          /\ inflight' = [inflight EXCEPT ![i].pc = "failed",
                                          ![i].error = executeQueryError(code)]
  /\ UNCHANGED <<polls, options, now, nextPollId, last>>

NextC ==
  \E i \in Calls :
    \/ (\E ids \in OptionIdLists(RacePoll) : BeginSubmitVote(i, ids))
         /\ update_vote_counts
    \/ DeleteByPoll(i) /\ update_vote_counts
    \/ DeleteByUser(i) /\ update_vote_counts
    \/ CreateMany(i) /\ update_vote_counts

ConcurrentSpec == InitC /\ [][NextC]_vars

\* both calls have returned without error
BothDone == inflight # <<>> /\ \A i \in Calls : inflight[i].pc = "done"

\* the options the voter of the two calls holds a vote row for
Held == {v.option_id : v \in getUserVotes(RacePoll, inflight[1].user)}

\* C20: nothing keeps the delete and insert steps of two submitVote calls
\* by the same voter on the same single-vote poll apart, and when both
\* calls have succeeded the voter holds the vote of a call exactly when its
\* insert came after the last delete of the other call: both votes
\* (duplicate) when each insert followed both deletes, one vote (the other
\* lost) otherwise.
C20_RaceOutcome ==
  BothDone =>
    LET a == inflight[1]
        b == inflight[2]
    IN Held = (IF b.deletedAt < a.insertedAt THEN Range(a.optionIds) ELSE {})
                \cup (IF a.deletedAt < b.insertedAt THEN Range(b.optionIds) ELSE {})

\* both calls have succeeded and the voter holds two vote rows for the
\* single-vote poll
C20_Witness ==
  /\ BothDone
  /\ ~PollRow(RacePoll).allow_multiple_votes
  /\ Cardinality(getUserVotes(RacePoll, inflight[1].user)) = 2

\* both calls have succeeded with different options, the second delete of
\* call 2 came right after the insert of call 1 and its first delete
\* before it, and the vote of call 1 is missing
C20_Lost ==
  /\ BothDone
  /\ inflight[1].optionIds # inflight[2].optionIds
  /\ inflight[2].deletedAt = inflight[1].insertedAt + 1
  /\ Held = Range(inflight[2].optionIds)

(***************************************************************************)
(* createPoll beside a reader.  createWithOptions awaits this.create and   *)
(* then this.createOptions, two store requests with no transaction around  *)
(* them; a fourth specification takes one createPoll call at a time        *)
(* through its two requests, with getPoll and getActivePolls of another    *)
(* caller running in between.  Here inflight is the createPoll call in     *)
(* progress and last what the reader was returned.                         *)
(***************************************************************************)
NoCreate ==
  [pc |-> "idle", form |-> <<>>, user |-> "u1", id |-> 0, error |-> NoError,
   code |-> "none"]

\* mutant of polls_expires_at_future: the store has no such constraint
polls_expires_at_futureAbsent(row) == TRUE

\* CONSTRAINT polls_expires_at_future CHECK (expires_at IS NULL OR
\* expires_at > created_at) of table polls.  Where validation and insert
\* fall in one step (CreatePoll, UpdatePoll) validateExpirationDate has
\* established it; here time may pass between the two.
polls_expires_at_future(row) ==
  row.expires_at = NoDate \/ row.expires_at > row.created_at

\* the code with which the store reports a violated CHECK constraint
check_violation == "23514"

InitR ==
  /\ polls = {}
  /\ options = {}
  /\ votes = {}
  /\ now = 0
  /\ nextPollId = 1
  /\ steps = 0
  /\ last = Idle
  /\ inflight = NoCreate
  /\ counters = NoCounters

\* createPoll up to the call of createWithOptions: validateAndThrowPoll
BeginCreatePoll(formData, userId) ==
  /\ inflight.pc \in {"idle", "done", "failed"}
  /\ nextPollId <= MaxPolls
  /\ inflight' =
       IF validateCreatePoll(formData, now, YearLength) # {}
       THEN [pc |-> "failed", form |-> formData, user |-> userId, id |-> 0,
             error |-> Err("ValidationError"), code |-> "none"]
       ELSE [pc |-> "createWithOptions", form |-> formData, user |-> userId,
             id |-> 0, error |-> NoError, code |-> "none"]
  /\ UNCHANGED <<polls, options, votes, now, nextPollId, steps, last>>

\* const poll = await this.create(pollData)
InsertPoll ==
  LET row == NewPollRow(nextPollId, inflight.form, inflight.user, now) IN
  /\ inflight.pc = "createWithOptions"
  /\ \/ /\ polls_expires_at_future(row)
        /\ polls' = polls \cup {row}
        /\ nextPollId' = nextPollId + 1
        /\ steps' = steps + 1
        /\ inflight' = [inflight EXCEPT !.pc = "created", !.id = nextPollId]
     \/ \E code \in InjectedCodes
                    \cup (IF polls_expires_at_future(row) THEN {}
                          ELSE {check_violation}) :
          /\ inflight' = [inflight EXCEPT !.pc = "failed", !.code = code,
                                          !.error = executeQueryError(code)]
          /\ UNCHANGED <<polls, nextPollId, steps>>
  /\ UNCHANGED <<options, votes, now, last>>

\* const options = await this.createOptions(optionsWithPollId)
InsertOptions ==
  /\ inflight.pc = "created"
  /\ \/ /\ options' = options \cup NewOptionRows(inflight.id, inflight.form)
        /\ steps' = steps + 1
        /\ inflight' = [inflight EXCEPT !.pc = "done"]
     \/ \E code \in InjectedCodes :
          /\ inflight' = [inflight EXCEPT !.pc = "failed", !.code = code,
                                          !.error = convertSupabaseError(code)]
          /\ UNCHANGED <<options, steps>>
  /\ UNCHANGED <<polls, votes, now, nextPollId, last>>

\* what a reader is returned: each poll with its nested poll_options
Seen(op, error, rows) == [op |-> op, error |-> error, rows |-> rows]

\* getPoll of another caller
ReadPoll(pollId) ==
  LET poll == getPoll(pollId) IN
  /\ last' = Seen("getPoll", poll.error,
                  IF poll.error = NoError
                  THEN {[id |-> pollId, poll_options |-> poll.poll_options]}
                  ELSE {})
  /\ UNCHANGED <<polls, options, votes, now, nextPollId, steps, inflight>>

\* getActivePolls of another caller
ListPolls ==
  /\ last' = Seen("getActivePolls", NoError,
                  {[id |-> p.id, poll_options |-> PollOptionRows(p.id)] :
                     p \in getActivePolls(now)})
  /\ UNCHANGED <<polls, options, votes, now, nextPollId, steps, inflight>>

\* the edit forms that supply an expiration
ExpirationForms(nowT) == {f \in EditForms(nowT) : "expiresAt" \in f.fields}

NextR ==
  \/ (\E f \in CreateForms(now), u \in Users : BeginCreatePoll(f, u))
       /\ update_vote_counts
  \/ InsertPoll /\ update_vote_counts
  \/ InsertOptions /\ update_vote_counts
  \/ last = Idle /\ (\E p \in CallPollIds : ReadPoll(p)) /\ update_vote_counts
  \/ last = Idle /\ ListPolls /\ update_vote_counts
  \/ /\ last = Idle
     /\ \E p \in CallPollIds, f \in ExpirationForms(now), u \in Users :
          UpdatePoll(p, f, u, YearLength)
     /\ update_vote_counts
     /\ UNCHANGED inflight
  \/ Return /\ UNCHANGED <<inflight, counters>>
  \/ Tick /\ UNCHANGED <<inflight, counters>>

CreateReadSpec == InitR /\ [][NextR]_vars

\* C21: a getPoll or a poll listing that runs beside createPoll never
\* returns the poll being created with fewer options than were submitted,
\* unless the creation has failed.
C21_NoPartialPoll ==
  (last.op \in {"getPoll", "getActivePolls"} /\ inflight.pc \in {"created", "done"}) =>
    \A r \in last.rows :
      r.id = inflight.id => Len(r.poll_options) = Len(inflight.form.options.v)

C23_ExpiresAfterCreation ==
  \A p \in polls : p.expires_at # NoDate => p.expires_at > p.created_at

\* the time of a validated expiration has come before the insert, and the
\* store has refused the poll row
C23_Witness ==
  /\ inflight.pc = "failed"
  /\ inflight.code = check_violation
  /\ inflight.form.expiresAt # NoDate
  /\ inflight.form.expiresAt <= now
  /\ IsDatabaseError(inflight.error)

\* C24: every failure of a repository operation run through executeQuery
\* reaches the caller as a DatabaseError whose originalError is the store's
\* error, whatever the store's error code.
C24_SingleDataAccessError ==
  last.op = "executeQuery" =>
    /\ IsDatabaseError(last.error)
    /\ last.error.original = "StoreError"

\* C25: getPollStatistics returns the statistics of an inactive poll to
\* the poll's creator only; every other caller, a caller with no user id
\* included, is refused.
C25_InactiveStatisticsOwnerOnly ==
  (last.op = "getPollStatistics" /\ Ok(last) /\ ~PollRow(last.poll).is_active)
    => last.user = PollRow(last.poll).created_by

(***************************************************************************)
(* Votes on two polls.  A voter's rows on one poll and a submitVote on     *)
(* another take two createPoll calls and two submitVote calls: a further   *)
(* specification starts from the store as two createPoll calls leave it,   *)
(* one poll of each user, and serves submitVote calls one at a time.       *)
(***************************************************************************)
InitP ==
  LET form == CreateForm(Some(sA), <<sA, sB>>, NoDate, FALSE) IN
  /\ polls = {NewPollRow(1, form, "u1", 0), NewPollRow(2, form, "u2", 0)}
  /\ options = NewOptionRows(1, form) \cup NewOptionRows(2, form)
  /\ votes = {}
  /\ now = 0
  /\ nextPollId = 3
  /\ steps = 0
  /\ last = Idle
  /\ inflight = <<>>
  /\ counters = CountersAfter(polls, options, votes)

NextP ==
  \/ /\ last = Idle
     /\ \E p \in CallPollIds, u \in Users :
          \E ids \in OptionIdLists(p) : SubmitVote(p, ids, u)
     /\ update_vote_counts
     /\ UNCHANGED inflight
  \/ Return /\ UNCHANGED <<inflight, counters>>

TwoPollSpec == InitP /\ [][NextP]_vars

\* C26: submitVote(P, optionIds, V) leaves unchanged the vote rows that V
\* holds on every poll Q other than P.
C26_OtherPollsKept ==
  [][(Served /\ last'.op = "submitVote")
     => \A v \in votes :
          (v.user_id = last'.user /\ v.poll_id # last'.poll) => v \in votes']_vars

\* C27: in every reachable state a voter holds at most one vote row in a
\* poll whose allow_multiple_votes flag is false, whatever createPoll,
\* submitVote and updatePoll calls came before (an updatePoll that changes
\* the flag included).
C27_SingleVotePolls ==
  \A p \in polls :
    ~p.allow_multiple_votes =>
      \A u \in Users : Cardinality(getUserVotes(p.id, u)) <= 1

\* C28: a submitVote that fails leaves the votes table unchanged; when the
\* insert of the new rows fails after the deletes have run, the votes the
\* voter had recorded for the poll are still present.
C28_FailedVoteKeepsVotes ==
  [][(Served /\ last'.op = "submitVote" /\ ~Ok(last')) => votes' = votes]_vars

(***************************************************************************)
(* The owner's togglePollStatus calls beside a submitVote.  togglePollStatus *)
(* reads the poll (findById) and writes the negation of what it read       *)
(* (updateStatus) in two store requests; a further specification takes two *)
(* such calls by the owner and one submitVote call of a voter through      *)
(* their store requests one at a time, on the poll as createPoll leaves    *)
(* it.                                                                     *)
(***************************************************************************)
Toggles == {1, 2}
VoteCall == 3

\* a togglePollStatus call by the poll's creator that has not started
Toggling ==
  [pc |-> "idle", user |-> "u1", existing |-> FALSE, isActive |-> FALSE,
   stored |-> FALSE, error |-> NoError]

InitO ==
  LET form == CreateForm(Some(sA), <<sA, sB>>, NoDate, FALSE) IN
  /\ polls = {NewPollRow(RacePoll, form, "u1", 0)}
  /\ options = NewOptionRows(RacePoll, form)
  /\ \E u \in Users :
       /\ inflight = [i \in Toggles \cup {VoteCall} |->
                        IF i = VoteCall THEN Waiting(u) ELSE Toggling]
       /\ votes \in {{}, votesData(RacePoll, u, <<OptionId(RacePoll, 1)>>, 0)}
  /\ now = 0
  /\ nextPollId = RacePoll + 1
  /\ steps = 0
  /\ last = Idle
  /\ counters = CountersAfter(polls, options, votes)

\* togglePollStatus up to the call of updateStatus: findById and the test
\* of the owner
FindExistingPoll(i) ==
  LET c == inflight[i]
      existing == findById(RacePoll)
      e == IF existing.error # NoError THEN existing.error
           ELSE IF ~isOwner(existing.row, c.user) THEN Err("UnauthorizedError")
           ELSE NoError
  IN
  /\ c.pc = "idle"
  /\ inflight' = [inflight EXCEPT ![i] =
                    [c EXCEPT !.error = e,
                              !.existing = (e = NoError /\ existing.row.is_active),
                              !.pc = IF e = NoError THEN "updateStatus" ELSE "failed"]]
  /\ UNCHANGED <<polls, options, votes, now, nextPollId, steps, last>>

\* await pollRepository.updateStatus(pollId, newStatus), and the return or
\* throw of the call
UpdateStatus(i) ==
  LET c == inflight[i]
      newStatus == ~c.existing
      row == PollRow(RacePoll)
  IN
  /\ c.pc = "updateStatus"
  /\ \/ /\ polls' = (polls \ {row}) \cup {updateStatus(row, newStatus, now)}
        /\ steps' = steps + 1
        /\ inflight' = [inflight EXCEPT ![i] =
                          [c EXCEPT !.pc = "done", !.isActive = newStatus,
                                    !.stored = updateStatus(row, newStatus, now).is_active]]
     \/ \E code \in InjectedCodes :
          /\ inflight' = [inflight EXCEPT ![i].pc = "failed",
                                           ![i].error = executeQueryError(code)]
          /\ UNCHANGED <<polls, steps>>
  /\ UNCHANGED <<options, votes, now, nextPollId, last>>

NextO ==
  \/ (\E i \in Toggles : FindExistingPoll(i)) /\ update_vote_counts
  \/ (\E i \in Toggles : UpdateStatus(i)) /\ update_vote_counts
  \/ (\E ids \in OptionIdLists(RacePoll) : BeginSubmitVote(VoteCall, ids))
       /\ update_vote_counts
  \/ DeleteByPoll(VoteCall) /\ update_vote_counts
  \/ DeleteByUser(VoteCall) /\ update_vote_counts
  \/ CreateMany(VoteCall) /\ update_vote_counts

OwnerRaceSpec == InitO /\ [][NextO]_vars

\* both togglePollStatus calls have returned without error
BothToggled == inflight # <<>> /\ \A i \in Toggles : inflight[i].pc = "done"

\* C29: when two togglePollStatus calls by the owner on the same poll have
\* completed, in whatever order their read and write steps ran, is_active
\* has the value it had before them (true, as createPoll leaves it), and
\* each call has returned the value that was stored when it completed.
C29_TwoTogglesRestore ==
  BothToggled =>
    /\ PollRow(RacePoll).is_active
    /\ \A i \in Toggles : inflight[i].isActive = inflight[i].stored

\* C30: no vote row is inserted into a poll that is inactive at the moment
\* of the insert: when the owner has deactivated the poll after
\* submitVote's test of the status, the insert is refused and no vote is
\* recorded.
C30_NoVoteIntoInactivePoll ==
  [][\A v \in votes' \ votes : PollRow(v.poll_id).is_active]_vars

\* the owner has deactivated the poll between the test of the status and
\* the insert of a submitVote, whose insert has been refused
C30_Witness ==
  /\ inflight # <<>>
  /\ VoteCall \in DOMAIN inflight
  /\ inflight[VoteCall].pc = "failed"
  /\ inflight[VoteCall].error = executeQueryError(insufficient_privilege)
  /\ ~PollRow(RacePoll).is_active
  /\ \E i \in Toggles : inflight[i].pc = "done"
  /\ getUserVotes(RacePoll, inflight[VoteCall].user) = {}

====
